---- MODULE Spec2Model ----
(***************************************************************************)
(* Model of the EVM module (modules/evm/src/lib.rs): the origin guards,    *)
(* the address mappings, the AccountCodes / AccountStorages maps, the      *)
(* dispatchables withdraw / call / create / create2 and the account        *)
(* helpers is_account_empty / remove_account / remove_account_if_empty.    *)
(*                                                                         *)
(* Byte strings are sequences over Byte.  The widths of the source (an     *)
(* H160 has 20 bytes, an AccountId32 has 32, the hashed buffer 4 + 20)     *)
(* are scaled down: an address has AddrLen bytes, an AccountId32 has       *)
(* AddrLen + PadLen bytes and the tag "evm:" is the sequence Tag.          *)
(***************************************************************************)
EXTENDS Integers, Sequences, FiniteSets, TLC

(* ------------------------------ bounds --------------------------------- *)
MaxByte == 1
AddrLen == 2
PadLen == 1
MaxBal == 2
MaxSteps == 2

Byte == 0..MaxByte
IdLen == AddrLen + PadLen

SeqsOf(n) == [1..n -> Byte]

\* H160
Address == SeqsOf(AddrLen)
\* AccountId32
AccountId32 == SeqsOf(IdLen)
\* every native identity of the model: H160 identities (identity mapping)
\* and AccountId32 identities (hashed mapping, truncated guard)
AccountId == Address \cup AccountId32

\* H256 storage keys and values; H256::default() is the zero word
H256 == 0..1
ZeroH256 == 0

\* Vec<u8> contract code: the empty code and one non-empty code
EmptyCode == << >>
Code == {EmptyCode, <<1>>}

(* --------------------------- origins ----------------------------------- *)
\* frame_system::RawOrigin<AccountId>
NoId == << >>
RawRoot == [kind |-> "Root", who |-> NoId]
RawNone == [kind |-> "None", who |-> NoId]
RawSigned(who) == [kind |-> "Signed", who |-> who]
RawOrigin == {RawRoot, RawNone} \cup {RawSigned(w) : w \in AccountId32}

\* The runtime's outer origin: a system RawOrigin, or the origin of some
\* other pallet, which does not convert into a RawOrigin.
FromRaw(r) == [pallet |-> "system", raw |-> r]
OtherOrigin == [pallet |-> "other", raw |-> RawNone]
OuterOrigin == {FromRaw(r) : r \in RawOrigin} \cup {OtherOrigin}

\* Result values
Ok(v) == [ok |-> TRUE, val |-> v]
Err(e) == [ok |-> FALSE, val |-> e]

\* OuterOrigin: Into<Result<RawOrigin<AccountId>, OuterOrigin>>
IntoRaw(o) == IF o.pallet = "system" THEN Ok(o.raw) ELSE Err(o)

Unit == "()"
BadOrigin == "BadOrigin"

(* ---------------------------- guards ----------------------------------- *)
\* Mutant: the root guard also lets signed origins through
EnsureAddressRoot_match_orSigned(o) ==
    IF o = RawRoot \/ o.kind = "Signed" THEN Ok(Unit) ELSE Err(FromRaw(o))

\* The match on the RawOrigin in EnsureAddressRoot::try_address_origin
EnsureAddressRoot_match(o) ==
    IF o = RawRoot THEN Ok(Unit) ELSE Err(FromRaw(o))

\* EnsureAddressRoot::try_address_origin
\* (origin.into().and_then: an origin that is no RawOrigin is handed back)
EnsureAddressRoot_try(address, origin) ==
    LET r == IntoRaw(origin)
    IN  IF r.ok THEN EnsureAddressRoot_match(r.val) ELSE r

\* EnsureAddressNever::try_address_origin
EnsureAddressNever_try(address, origin) == Err(origin)

\* Mutant: the comparison stops one byte short
PrefixMatches_shortByOne(who, address) ==
    SubSeq(who, 1, AddrLen - 1) = SubSeq(address, 1, AddrLen - 1)

\* who[0..20] == address[0..20]
PrefixMatches(who, address) ==
    SubSeq(who, 1, AddrLen) = SubSeq(address, 1, AddrLen)

\* EnsureAddressTruncated::try_address_origin
EnsureAddressTruncated_try(address, origin) ==
    LET r == IntoRaw(origin)
        match(o) == IF o.kind = "Signed" /\ PrefixMatches(o.who, address)
                    THEN Ok(o.who)
                    ELSE Err(FromRaw(o))
    IN  IF r.ok THEN match(r.val) ELSE r

Guards == {"Root", "Never", "Truncated"}

\* EnsureAddressOrigin::try_address_origin of the guard type `guard`
try_address_origin(guard, address, origin) ==
    CASE guard = "Root" -> EnsureAddressRoot_try(address, origin)
      [] guard = "Never" -> EnsureAddressNever_try(address, origin)
      [] guard = "Truncated" -> EnsureAddressTruncated_try(address, origin)

\* EnsureAddressOrigin::ensure_address_origin: try, with the error mapped
\* to BadOrigin
ensure_address_origin(guard, address, origin) ==
    LET r == try_address_origin(guard, address, origin)
    IN  IF r.ok THEN r ELSE Err(BadOrigin)

(* ------------------------- address mapping ----------------------------- *)
\* b"evm:"
Tag == <<1>>

\* IdentityAddressMapping::into_account_id
IdentityAddressMapping(address) == address

\* Mutant: the last byte of the address is not copied into the buffer
HashedData_shortCopy(address) == Tag \o SubSeq(address, 1, Len(address) - 1)

\* The tagged buffer: data[0..4] = "evm:", data[4..24] = address
HashedData(address) == Tag \o address

\* H::hash, a Hasher with 32-byte output: an injective function of the
\* tagged buffer under which no address is a prefix of its own image.
Hash(data) ==
    [i \in 1..IdLen |->
        IF i <= Len(data) - Len(Tag)
        THEN MaxByte - data[Len(Tag) + i]
        ELSE IF i - (Len(data) - Len(Tag)) <= Len(Tag)
             THEN data[i - (Len(data) - Len(Tag))]
             ELSE 0]

\* HashedAddressMapping::into_account_id
HashedAddressMapping(address) == Hash(HashedData(address))

Mappings == {"Identity", "Hashed"}

\* T::AddressMapping::into_account_id under the configured mapping
into_account_id(mapping, address) ==
    IF mapping = "Identity" THEN IdentityAddressMapping(address)
    ELSE HashedAddressMapping(address)

(* ------------------------------ state ---------------------------------- *)
VARIABLES
    config,           \* the runtime's Trait: AddressMapping, CallOrigin, WithdrawOrigin
    AccountCodes,     \* map H160 => Vec<u8>
    AccountStorages,  \* double_map H160, H256 => H256
    balances,         \* T::Currency: free balance of every native identity
    nonces,           \* frame_system: account nonce of every native identity
    events,           \* the events deposited so far
    lastOp,           \* the last operation: its arguments and what it returned
    steps,            \* number of operations performed
    guardCall,        \* a guard evaluation: its inputs and results
    genesis,          \* the genesis config and the accounts still to load
    mapCall,          \* an address mapping evaluation: its inputs and results
    inv               \* the dispatchable in progress, statement by statement

vars == <<config, AccountCodes, AccountStorages, balances, nonces, events,
          lastOp, steps, guardCall, genesis, mapCall, inv>>

\* The Trait implementations the source's types allow.  With the identity
\* mapping AccountId is H160: EnsureAddressTruncated (AccountId32 only) is
\* excluded, and the withdraw guard (Success = AccountId) can only be
\* EnsureAddressNever.  With the hashed mapping AccountId is AccountId32:
\* EnsureAddressRoot (Success = ()) cannot be the withdraw guard.
Configs ==
    {[mapping |-> "Identity", callOrigin |-> c, withdrawOrigin |-> "Never"] :
        c \in {"Root", "Never"}}
    \cup
    {[mapping |-> "Hashed", callOrigin |-> c, withdrawOrigin |-> w] :
        c \in Guards, w \in {"Never", "Truncated"}}

(* --------------------------- storage maps ------------------------------ *)
\* StorageMap::insert
MapInsert(m, k, v) == [x \in (DOMAIN m) \cup {k} |-> IF x = k THEN v ELSE m[x]]

\* StorageMap::remove
MapRemove(m, k) == [x \in (DOMAIN m) \ {k} |-> m[x]]

\* StorageDoubleMap::remove_prefix
MapRemovePrefix(m, k1) == [x \in {y \in DOMAIN m : y[1] # k1} |-> m[x]]

EmptyMap == [x \in {} |-> 0]

\* StorageMap::get of a map with a default value
MapGet(m, k, default) == IF k \in DOMAIN m THEN m[k] ELSE default

\* A ledger entry: an identity with nothing left has no entry
MapPut(m, k, v) == IF v = 0 THEN MapRemove(m, k) ELSE MapInsert(m, k, v)

\* AccountCodes::get, the getter account_codes: the default (empty) value
\* when the key is absent
account_codes(address) ==
    IF address \in DOMAIN AccountCodes THEN AccountCodes[address] ELSE EmptyCode

\* Mutant: an entry counts for one more than the length of its code
decode_len_countingEntry(address) ==
    IF address \in DOMAIN AccountCodes
    THEN Ok(Len(AccountCodes[address]) + 1)
    ELSE Err("None")

\* AccountCodes::decode_len: None when the key is absent
decode_len(address) ==
    IF address \in DOMAIN AccountCodes
    THEN Ok(Len(AccountCodes[address]))
    ELSE Err("None")

\* Option::unwrap_or
UnwrapOr(o, d) == IF o.ok THEN o.val ELSE d

\* AccountStorages::get, the getter account_storages
account_storages(address, index) ==
    IF <<address, index>> \in DOMAIN AccountStorages
    THEN AccountStorages[<<address, index>>]
    ELSE ZeroH256

(* ------------------------ native ledger -------------------------------- *)
\* T::Currency::free_balance
free_balance(who) == MapGet(balances, who, 0)

\* frame_system::Module::account_nonce
account_nonce(who) == MapGet(nonces, who, 0)

\* T::Currency::deposit_creating
deposit_creating(bal, who, value) == MapPut(bal, who, MapGet(bal, who, 0) + value)

\* T::Currency::transfer: fails when the source's free balance is
\* insufficient, otherwise debits the source and credits the destination
Currency_transfer(bal, from, to, value) ==
    IF value > MapGet(bal, from, 0)
    THEN Err("InsufficientBalance")
    ELSE LET debited == MapPut(bal, from, MapGet(bal, from, 0) - value)
         IN  Ok(MapPut(debited, to, MapGet(debited, to, 0) + value))

\* The largest u128, as far as the model's integers reach
U128Max == 2147483647

\* UniqueSaturatedInto::<u128>::unique_saturated_into
unique_saturated_into(x) == IF x > U128Max THEN U128Max ELSE x

(* ------------------------ account helpers ------------------------------ *)
\* Module::account_basic
account_basic(address) ==
    LET account_id == into_account_id(config.mapping, address)
    IN  [nonce |-> unique_saturated_into(account_nonce(account_id)),
         balance |-> unique_saturated_into(free_balance(account_id))]

\* Mutant: the nonce is not looked at
is_account_empty_ignoringNonce(address) ==
    LET account == account_basic(address)
        code_len == UnwrapOr(decode_len(address), 0)
    IN  account.balance = 0 /\ code_len = 0

\* Module::is_account_empty
is_account_empty(address) ==
    LET account == account_basic(address)
        code_len == UnwrapOr(decode_len(address), 0)
    IN  account.nonce = 0 /\ account.balance = 0 /\ code_len = 0

(* ------------------------------ events --------------------------------- *)
Created(a) == [name |-> "Created", address |-> a]
CreatedFailed(a) == [name |-> "CreatedFailed", address |-> a]
Executed(a) == [name |-> "Executed", address |-> a]
ExecutedFailed(a) == [name |-> "ExecutedFailed", address |-> a]
LogEvent(a) == [name |-> "Log", address |-> a]

\* The four events of the dispatchables
DispatchEventNames == {"Created", "CreatedFailed", "Executed", "ExecutedFailed"}

\* Mutant: the event is not deposited
deposit_event_dropped(evs, e) == evs

\* Module::deposit_event
deposit_event(evs, e) == Append(evs, e)

(* ------------------------------ Runner --------------------------------- *)
\* evm::ExitReason: Succeed(_), Revert(_), Error(_), Fatal(_)
ExitReason ==
    {[kind |-> "Succeed", reason |-> "Stopped"],
     [kind |-> "Succeed", reason |-> "Returned"],
     [kind |-> "Revert", reason |-> "Reverted"],
     [kind |-> "Error", reason |-> "OutOfGas"],
     [kind |-> "Fatal", reason |-> "NotSupported"]}

NoExit == [kind |-> "None", reason |-> "None"]
NoAddress == << >>

\* The part of the state a Runner works on
World == [codes |-> AccountCodes, storages |-> AccountStorages,
          balances |-> balances, nonces |-> nonces, events |-> events]

\* The slot and value a contract execution writes
RunKey == 1
RunValue == 1

\* T::Runner::call: an error, or a CallInfo with any exit reason.  The
\* input, value and gas limit decide which; the model draws the outcome.
\* A successful execution that returns commits a storage write of the
\* target and a log; a failed one commits nothing; an error may come after
\* a write.
Runner_call(source, target) ==
    LET w == World
        written == [w EXCEPT !.storages = MapInsert(@, <<target, RunKey>>, RunValue)]
        logged == [written EXCEPT !.events = Append(@, LogEvent(target))]
        info(x) == [exit_reason |-> x, value |-> NoAddress]
    IN  {[res |-> Err("RunnerError"), world |-> w],
         [res |-> Err("RunnerError"), world |-> written]}
        \cup
        {[res |-> Ok(info(x)),
          world |-> IF x.reason = "Returned" THEN logged ELSE w] : x \in ExitReason}

\* The address of a contract created by `source` at nonce n
create_address(source, n) ==
    [i \in 1..AddrLen |-> (source[i] + n + 1) % (MaxByte + 1)]

\* The address of a contract created by `source` with create2
create2_address(source, init, salt) ==
    [i \in 1..AddrLen |-> (source[i] + salt + Len(init)) % (MaxByte + 1)]

\* The outcomes of a creation at `address`: the source's nonce is
\* incremented by every execution, the code is stored by a successful one.
Runner_create_at(source, init, address) ==
    LET w == World
        id == into_account_id(config.mapping, source)
        coded == [w EXCEPT !.codes = MapInsert(@, address, init)]
        bumped(v) == [v EXCEPT !.nonces = MapPut(@, id, MapGet(@, id, 0) + 1)]
        info(x) == [exit_reason |-> x, value |-> address]
    IN  {[res |-> Err("RunnerError"), world |-> w],
         [res |-> Err("RunnerError"), world |-> coded]}
        \cup
        {[res |-> Ok(info(x)),
          world |-> IF x.kind = "Succeed" THEN bumped(coded) ELSE bumped(w)] :
            x \in ExitReason}

\* T::Runner::create
Runner_create(source, init) ==
    Runner_create_at(source, init,
        create_address(source, account_nonce(into_account_id(config.mapping, source))))

\* T::Runner::create2
Runner_create2(source, init, salt) ==
    Runner_create_at(source, init, create2_address(source, init, salt))

(* --------------------------- dispatchables ----------------------------- *)
\* What a dispatchable returns and the state it leaves
Outcome(result, exit, created, w) ==
    [result |-> result, exit |-> exit, created |-> created, world |-> w]

\* Mutant: a failed transfer is not propagated
withdraw_ignoringTransferError(origin, address, value) ==
    LET destination == ensure_address_origin(config.withdrawOrigin, address, origin)
    IN  IF ~destination.ok
        THEN Outcome(destination.val, NoExit, NoAddress, World)
        ELSE
        LET address_account_id == into_account_id(config.mapping, address)
            t == Currency_transfer(balances, address_account_id,
                                   destination.val, value)
        IN  Outcome("Ok", NoExit, NoAddress,
                    IF t.ok THEN [World EXCEPT !.balances = t.val] ELSE World)

\* Mutant: the destination is credited by a deposit, the source not debited
withdraw_byDeposit(origin, address, value) ==
    LET destination == ensure_address_origin(config.withdrawOrigin, address, origin)
    IN  IF ~destination.ok
        THEN Outcome(destination.val, NoExit, NoAddress, World)
        ELSE
        LET address_account_id == into_account_id(config.mapping, address)
        IN  IF value > free_balance(address_account_id)
            THEN Outcome("InsufficientBalance", NoExit, NoAddress, World)
            ELSE Outcome("Ok", NoExit, NoAddress,
                         [World EXCEPT !.balances =
                             deposit_creating(@, destination.val, value)])

\* T::WithdrawOrigin::ensure_address_origin(&address, origin)
withdraw_origin(address, origin) ==
    ensure_address_origin(config.withdrawOrigin, address, origin)

\* fn withdraw
withdraw(origin, address, value) ==
    LET destination == withdraw_origin(address, origin)
    IN  IF ~destination.ok
        THEN Outcome(destination.val, NoExit, NoAddress, World)
        ELSE
        LET address_account_id == into_account_id(config.mapping, address)
            t == Currency_transfer(balances, address_account_id,
                                   destination.val, value)
        IN  IF ~t.ok
            THEN Outcome(t.val, NoExit, NoAddress, World)
            ELSE Outcome("Ok", NoExit, NoAddress,
                         [World EXCEPT !.balances = t.val])

\* Mutant: the dispatchables check the withdraw guard instead
call_origin_withdrawGuard(source, origin) ==
    ensure_address_origin(config.withdrawOrigin, source, origin)

\* T::CallOrigin::ensure_address_origin(&source, origin)
call_origin(source, origin) ==
    ensure_address_origin(config.callOrigin, source, origin)

\* Mutant: only one variant of Succeed counts as success
call_event_returnedOnly(exit_reason, target) ==
    IF exit_reason = [kind |-> "Succeed", reason |-> "Returned"]
    THEN Executed(target)
    ELSE ExecutedFailed(target)

\* The match on CallInfo.exit_reason in fn call
call_event(exit_reason, target) ==
    IF exit_reason.kind = "Succeed"
    THEN Executed(target)
    ELSE ExecutedFailed(target)

\* Mutant: the dispatchable goes on to the Runner whatever the guard returns
after_origin_check_always(g) == "runner"

\* The `?` on the guard's result: the dispatchable returns the error, or
\* goes on to the Runner
after_origin_check(g) == IF g.ok THEN "runner" ELSE "done"

\* The `?` on the Runner's result: the dispatchable returns the error, or
\* goes on to the match that deposits the event
after_runner(res) == IF res.ok THEN "event" ELSE "done"

\* Mutant: the call prunes the storage of its target after the event
call_pruningTarget(origin, source, target, run) ==
    LET g == call_origin(source, origin)
    IN  IF ~g.ok
        THEN Outcome(g.val, NoExit, NoAddress, World)
        ELSE IF ~run.res.ok
        THEN Outcome(run.res.val, NoExit, NoAddress, run.world)
        ELSE
        LET info == run.res.val
        IN  Outcome("Ok", info.exit_reason, info.value,
                [run.world EXCEPT
                    !.events = deposit_event(@, call_event(info.exit_reason, target)),
                    !.storages = MapRemovePrefix(@, target)])

\* fn call; `run` is what T::Runner::call does
call(origin, source, target, run) ==
    LET g == call_origin(source, origin)
    IN  IF ~g.ok
        THEN Outcome(g.val, NoExit, NoAddress, World)
        ELSE IF ~run.res.ok
        THEN Outcome(run.res.val, NoExit, NoAddress, run.world)
        ELSE
        LET info == run.res.val
        IN  Outcome("Ok", info.exit_reason, info.value,
                [run.world EXCEPT !.events =
                    deposit_event(@, call_event(info.exit_reason, target))])

\* Mutant: the second arm deposits Created as well
create_event_alwaysCreated(exit_reason, create_address_) ==
    Created(create_address_)

\* Mutant: the second arm deposits CreatedFailed without the address
create_event_failedDefault(exit_reason, create_address_) ==
    IF exit_reason.kind = "Succeed"
    THEN Created(create_address_)
    ELSE CreatedFailed(NoAddress)

\* The match on CreateInfo in fn create and fn create2
create_event(exit_reason, create_address_) ==
    IF exit_reason.kind = "Succeed"
    THEN Created(create_address_)
    ELSE CreatedFailed(create_address_)

\* fn create; `run` is what T::Runner::create does
create(origin, source, run) ==
    LET g == call_origin(source, origin)
    IN  IF ~g.ok
        THEN Outcome(g.val, NoExit, NoAddress, World)
        ELSE IF ~run.res.ok
        THEN Outcome(run.res.val, NoExit, NoAddress, run.world)
        ELSE
        LET info == run.res.val
        IN  Outcome("Ok", info.exit_reason, info.value,
                [run.world EXCEPT !.events =
                    deposit_event(@, create_event(info.exit_reason, info.value))])

\* fn create2; `run` is what T::Runner::create2 does
create2(origin, source, run) ==
    LET g == call_origin(source, origin)
    IN  IF ~g.ok
        THEN Outcome(g.val, NoExit, NoAddress, World)
        ELSE IF ~run.res.ok
        THEN Outcome(run.res.val, NoExit, NoAddress, run.world)
        ELSE
        LET info == run.res.val
        IN  Outcome("Ok", info.exit_reason, info.value,
                [run.world EXCEPT !.events =
                    deposit_event(@, create_event(info.exit_reason, info.value))])

\* Mutant: the storage of every address is removed
remove_account_allStorage(address) ==
    [World EXCEPT !.codes = MapRemove(@, address),
                  !.storages = EmptyMap]

\* Mutant: the storage prefix is not removed
remove_account_codeOnly(address) ==
    [World EXCEPT !.codes = MapRemove(@, address)]

\* Module::remove_account
remove_account(address) ==
    [World EXCEPT !.codes = MapRemove(@, address),
                  !.storages = MapRemovePrefix(@, address)]

\* Mutant: the account is removed without the emptiness check
remove_account_if_empty_unchecked(address) == remove_account(address)

\* Module::remove_account_if_empty
remove_account_if_empty(address) ==
    IF is_account_empty(address) THEN remove_account(address) ELSE World

(* ------------------------------ genesis -------------------------------- *)
\* The big-endian number of a byte string: BTreeMap<H160, _> iterates in
\* this order
BytesNum(b) ==
    LET RECURSIVE num(_)
        num(n) == IF n = 0 THEN 0 ELSE num(n - 1) * (MaxByte + 1) + b[n]
    IN  num(Len(b))

MinAddress(S) == CHOOSE a \in S : \A b \in S : BytesNum(a) <= BytesNum(b)
MinKey(S) == CHOOSE k \in S : \A j \in S : k <= j

\* for (index, value) in &account.storage { AccountStorages::insert(..) }
RECURSIVE genesis_storage(_, _, _)
genesis_storage(st, address, storage) ==
    IF DOMAIN storage = {} THEN st
    ELSE LET index == MinKey(DOMAIN storage)
             rest == [k \in (DOMAIN storage) \ {index} |-> storage[k]]
         IN  genesis_storage(MapInsert(st, <<address, index>>, storage[index]),
                             address, rest)

\* Mutant: the code of the account is not stored
genesis_account_noCode(w, mapping, address, account) ==
    LET account_id == into_account_id(mapping, address)
    IN  [w EXCEPT !.balances = deposit_creating(@, account_id, account.balance),
                  !.storages = genesis_storage(@, address, account.storage)]

\* Mutant: the storage map is rebuilt from the account's storage alone
genesis_account_storageReset(w, mapping, address, account) ==
    LET account_id == into_account_id(mapping, address)
    IN  [w EXCEPT !.balances = deposit_creating(@, account_id, account.balance),
                  !.codes = MapInsert(@, address, account.code),
                  !.storages = genesis_storage(EmptyMap, address, account.storage)]

\* The body of the loop over config.accounts
genesis_account(w, mapping, address, account) ==
    LET account_id == into_account_id(mapping, address)
    IN  [w EXCEPT !.balances = deposit_creating(@, account_id, account.balance),
                  !.codes = MapInsert(@, address, account.code),
                  !.storages = genesis_storage(@, address, account.storage)]

\* add_extra_genesis build
RECURSIVE genesis_build(_, _, _)
genesis_build(w, mapping, accounts) ==
    IF DOMAIN accounts = {} THEN w
    ELSE LET address == MinAddress(DOMAIN accounts)
             rest == [a \in (DOMAIN accounts) \ {address} |-> accounts[a]]
         IN  genesis_build(genesis_account(w, mapping, address, accounts[address]),
                           mapping, rest)

\* The state before genesis: nothing stored, no balance, no nonce
EmptyWorld ==
    [codes |-> EmptyMap, storages |-> EmptyMap,
     balances |-> EmptyMap,
     nonces |-> EmptyMap,
     events |-> << >>]

(* --------------------------- inputs ------------------------------------ *)
Fill(n, b) == [i \in 1..n |-> b]

\* The addresses the operations are called with
Addrs == {Fill(AddrLen, b) : b \in 0..1}

\* The signer whose first AddrLen bytes are the address
SignerOf(a) == [i \in 1..IdLen |-> IF i <= AddrLen THEN a[i] ELSE 0]

\* The principals the dispatchables are called by: root, and the signer
\* that matches one of the addresses and not the other
Origins ==
    {FromRaw(RawRoot), FromRaw(RawSigned(SignerOf(Fill(AddrLen, 0))))}

\* The salts of create2
Salts == {1}

\* The init code of the creations
InitCode == <<1>>

\* The amounts withdrawn: a part of and more than a genesis balance
Values == {1, MaxBal + 1}

\* The Runner is invoked, and its outcome drawn, only behind a passed guard
NotRun == [res |-> Err("NotRun"), world |-> EmptyWorld]
RunsBehind(g, runs) == IF g.ok THEN runs ELSE {NotRun}

\* The genesis accounts
GenesisAccounts ==
    {[balance |-> b, code |-> EmptyCode, storage |-> EmptyMap] : b \in {0, MaxBal}}
    \cup
    {[balance |-> b, code |-> <<1>>, storage |-> [k \in {RunKey} |-> RunValue]] :
        b \in {0, MaxBal}}

\* The genesis configurations: no account, or one account
GenesisConfigs ==
    {EmptyMap} \cup
    {[x \in {Fill(AddrLen, 0)} |-> g] : g \in GenesisAccounts}

NoOp ==
    [op |-> "none", origin |-> FromRaw(RawNone), address |-> NoAddress,
     target |-> NoAddress, value |-> 0,
     result |-> "Ok", exit |-> NoExit, created |-> NoAddress]

NoGuardCall ==
    [guard |-> "Never", address |-> NoAddress, origin |-> FromRaw(RawNone),
     phase |-> "none", try |-> Err(FromRaw(RawNone)), ensure |-> Err(BadOrigin)]

NoGenesis == [accounts |-> EmptyMap, pending |-> {}, mode |-> "none"]

NoMapCall ==
    [mapping |-> "Identity", a |-> NoAddress, b |-> NoAddress, phase |-> "none",
     first |-> NoId, again |-> NoId, second |-> NoId]

NoInv ==
    [op |-> "none", origin |-> FromRaw(RawNone), source |-> NoAddress,
     target |-> NoAddress, pc |-> "idle", guards |-> 0, guardOk |-> FALSE,
     runs |-> 0, returned |-> FALSE, deposits |-> 0, result |-> "Ok",
     exit |-> NoExit, created |-> NoAddress]

(* ------------------------------ Init ----------------------------------- *)
Init ==
    /\ config \in Configs
    /\ \E accounts \in GenesisConfigs :
         LET w == genesis_build(EmptyWorld, config.mapping, accounts)
         IN  /\ AccountCodes = w.codes
             /\ AccountStorages = w.storages
             /\ balances = w.balances
             /\ nonces = w.nonces
             /\ events = w.events
    /\ lastOp = NoOp
    /\ steps = 0
    /\ guardCall = NoGuardCall
    /\ genesis = NoGenesis
    /\ mapCall = NoMapCall
    /\ inv = NoInv

(* ----------------------------- actions --------------------------------- *)
\* The state after an operation
Commit(w) ==
    /\ AccountCodes' = w.codes
    /\ AccountStorages' = w.storages
    /\ balances' = w.balances
    /\ nonces' = w.nonces
    /\ events' = w.events
    /\ steps' = steps + 1
    /\ UNCHANGED <<config, guardCall, genesis, mapCall, inv>>

Record(op, origin, address, target, value, out) ==
    lastOp' = [op |-> op, origin |-> origin, address |-> address,
               target |-> target, value |-> value, result |-> out.result,
               exit |-> out.exit, created |-> out.created]

Withdraw ==
    /\ steps < MaxSteps
    /\ \E origin \in Origins, address \in Addrs, value \in Values :
         LET out == withdraw(origin, address, value)
         IN  /\ Commit(out.world)
             /\ Record("withdraw", origin, address, NoAddress, value, out)

Call ==
    /\ steps < MaxSteps
    /\ \E origin \in Origins, source \in Addrs, target \in Addrs :
         \E run \in RunsBehind(call_origin(source, origin),
                               Runner_call(source, target)) :
           LET out == call(origin, source, target, run)
           IN  /\ Commit(out.world)
               /\ Record("call", origin, source, target, 0, out)

Create ==
    /\ steps < MaxSteps
    /\ \E origin \in Origins, source \in Addrs :
         \E run \in RunsBehind(call_origin(source, origin),
                               Runner_create(source, InitCode)) :
           LET out == create(origin, source, run)
           IN  /\ Commit(out.world)
               /\ Record("create", origin, source, NoAddress, 0, out)

Create2 ==
    /\ steps < MaxSteps
    /\ \E origin \in Origins, source \in Addrs, salt \in Salts :
         \E run \in RunsBehind(call_origin(source, origin),
                               Runner_create2(source, InitCode, salt)) :
           LET out == create2(origin, source, run)
           IN  /\ Commit(out.world)
               /\ Record("create2", origin, source, NoAddress, 0, out)

RemoveAccount ==
    /\ steps < MaxSteps
    /\ \E address \in Addrs :
         /\ Commit(remove_account(address))
         /\ Record("remove", FromRaw(RawNone), address, NoAddress, 0,
                   Outcome("Ok", NoExit, NoAddress, World))

RemoveAccountIfEmpty ==
    /\ steps < MaxSteps
    /\ \E address \in Addrs :
         /\ Commit(remove_account_if_empty(address))
         /\ Record("remove_if_empty", FromRaw(RawNone), address, NoAddress, 0,
                   Outcome("Ok", NoExit, NoAddress, World))

Next ==
    \/ Withdraw
    \/ Call
    \/ Create
    \/ Create2
    \/ RemoveAccount
    \/ RemoveAccountIfEmpty

Spec == Init /\ [][Next]_vars

(* ------------------- the guards as pure functions ---------------------- *)
\* A guard evaluation starts from any guard, address and principal
GuardInputs ==
    {[guard |-> g, address |-> a, origin |-> o, phase |-> "input",
      try |-> Err(o), ensure |-> Err(BadOrigin)] :
        g \in Guards, a \in Address, o \in OuterOrigin}

InitGuard ==
    /\ config = [mapping |-> "Hashed", callOrigin |-> "Truncated",
                 withdrawOrigin |-> "Truncated"]
    /\ AccountCodes = EmptyMap
    /\ AccountStorages = EmptyMap
    /\ balances = EmptyMap
    /\ nonces = EmptyMap
    /\ events = << >>
    /\ lastOp = NoOp
    /\ steps = 0
    /\ guardCall \in GuardInputs
    /\ genesis = NoGenesis
    /\ mapCall = NoMapCall
    /\ inv = NoInv

TryAddressOrigin ==
    /\ guardCall.phase = "input"
    /\ guardCall' =
         [guardCall EXCEPT
            !.phase = "tried",
            !.try = try_address_origin(guardCall.guard, guardCall.address,
                                       guardCall.origin)]
    /\ UNCHANGED <<config, AccountCodes, AccountStorages, balances, nonces,
                   events, lastOp, steps, genesis, mapCall, inv>>

EnsureAddressOrigin ==
    /\ guardCall.phase = "tried"
    /\ guardCall' =
         [guardCall EXCEPT
            !.phase = "ensured",
            !.ensure = ensure_address_origin(guardCall.guard, guardCall.address,
                                             guardCall.origin)]
    /\ UNCHANGED <<config, AccountCodes, AccountStorages, balances, nonces,
                   events, lastOp, steps, genesis, mapCall, inv>>

NextGuard == TryAddressOrigin \/ EnsureAddressOrigin

SpecGuard == InitGuard /\ [][NextGuard]_vars

(* ------------------------------ claims --------------------------------- *)
DispatchOps == {"call", "create", "create2"}

\* The events an operation appended, when the old log is a prefix of the new
Appended(old, new) == SubSeq(new, Len(old) + 1, Len(new))
IsPrefix(old, new) ==
    Len(old) <= Len(new) /\ SubSeq(new, 1, Len(old)) = old

\* The events of the dispatchables among a sequence of events
DispatchEvents(evs) == SelectSeq(evs, LAMBDA e : e.name \in DispatchEventNames)

\* The call-capable guard rejects the principal of the operation r
CallGuardRejects(r) ==
    ~ensure_address_origin(config.callOrigin, r.address, r.origin).ok

\* The withdraw-capable guard rejects the principal of the operation r
WithdrawGuardRejects(r) ==
    ~ensure_address_origin(config.withdrawOrigin, r.address, r.origin).ok

\* C1: a call, create or create2 whose principal the call-capable guard
\* rejects for the source fails with the authorization error and leaves the
\* code map, the storage map, every balance and the event log as they were.
C1_RejectedDispatchChangesNothing ==
    [][(lastOp'.op \in DispatchOps /\ CallGuardRejects(lastOp'))
        => /\ lastOp'.result = BadOrigin
           /\ UNCHANGED <<AccountCodes, AccountStorages, balances, events>>]_vars

\* C1 witness: a rejected create2 in a state that has code, storage and events
C1_Witness ==
    /\ lastOp.op = "create2"
    /\ CallGuardRejects(lastOp)
    /\ lastOp.result = BadOrigin
    /\ DOMAIN AccountCodes # {}
    /\ DOMAIN AccountStorages # {}
    /\ Len(events) > 0

\* C2 as stated: every call, create or create2 that passes the guard appends
\* exactly one of the four events whatever the Runner returns, and one
\* stopped by the guard appends none.
C2_Original ==
    [][lastOp'.op \in DispatchOps
        => /\ IsPrefix(events, events')
           /\ Len(DispatchEvents(Appended(events, events'))) =
                IF CallGuardRejects(lastOp') THEN 0 ELSE 1]_vars

\* C2 amended: every call, create or create2 that passes the guard and whose
\* Runner returns a result (with any exit status) appends exactly one of the
\* four events; the invocations that append none are those stopped by the
\* guard and those whose Runner returns an error, and they fail.
C2_OneEventUnlessError ==
    [][lastOp'.op \in DispatchOps
        => /\ IsPrefix(events, events')
           /\ (lastOp'.result = "Ok")
                <=> (~CallGuardRejects(lastOp') /\ lastOp'.exit \in ExitReason)
           /\ (lastOp'.result # "Ok")
                <=> (CallGuardRejects(lastOp') \/ lastOp'.result = "RunnerError")
           /\ Len(DispatchEvents(Appended(events, events'))) =
                IF lastOp'.result = "Ok" THEN 1 ELSE 0]_vars

\* C2 witness: a create that passed the guard, ended in Fatal and appended
\* its event after an earlier operation's
C2_Witness ==
    /\ lastOp.op = "create"
    /\ ~CallGuardRejects(lastOp)
    /\ lastOp.exit.kind = "Fatal"
    /\ Len(events) = 2

\* C3: an authorized call whose Runner result carries Succeed(_) appends
\* exactly Executed(target), one carrying Revert, Error or Fatal appends
\* exactly ExecutedFailed(target); the call returns success, and the
\* address of the event is the target.
C3_CallEvent ==
    [][(lastOp'.op = "call" /\ lastOp'.exit \in ExitReason)
        => /\ lastOp'.result = "Ok"
           /\ IsPrefix(events, events')
           /\ DispatchEvents(Appended(events, events')) =
                << IF lastOp'.exit.kind = "Succeed"
                   THEN Executed(lastOp'.target)
                   ELSE ExecutedFailed(lastOp'.target) >>]_vars

\* C3 witness: a call from one address to another that stopped successfully
C3_Witness ==
    /\ lastOp.op = "call"
    /\ lastOp.exit = [kind |-> "Succeed", reason |-> "Stopped"]
    /\ lastOp.target # lastOp.address
    /\ events[Len(events)] = Executed(lastOp.target)

\* C4: a create or create2 whose Runner result carries Succeed(_) appends
\* exactly Created(a), one carrying another exit status exactly
\* CreatedFailed(a), a being the address of the Runner's result; the entry
\* point returns success.
C4_CreateEvent ==
    [][(lastOp'.op \in {"create", "create2"} /\ lastOp'.exit \in ExitReason)
        => /\ lastOp'.result = "Ok"
           /\ lastOp'.created \in Address
           /\ IsPrefix(events, events')
           /\ DispatchEvents(Appended(events, events')) =
                << IF lastOp'.exit.kind = "Succeed"
                   THEN Created(lastOp'.created)
                   ELSE CreatedFailed(lastOp'.created) >>]_vars

\* C4 witness: a create2 that reverted, with its CreatedFailed event
C4_Witness ==
    /\ lastOp.op = "create2"
    /\ lastOp.exit.kind = "Revert"
    /\ lastOp.result = "Ok"
    /\ events[Len(events)] = CreatedFailed(lastOp.created)

\* The amount of the withdraw r exceeds the free balance of the identity
\* mapped from its address
Overdraws(r) ==
    r.value > free_balance(into_account_id(config.mapping, r.address))

\* C5 as stated: a withdraw whose amount exceeds the free balance of the
\* mapped identity fails with a funds error, appends no event and leaves
\* codes, storage and balances unchanged.
C5_Original ==
    [][(lastOp'.op = "withdraw" /\ Overdraws(lastOp'))
        => /\ lastOp'.result = "InsufficientBalance"
           /\ UNCHANGED <<AccountCodes, AccountStorages, balances, events>>]_vars

\* C5 amended: a withdraw whose amount exceeds the free balance of the
\* mapped identity fails, with a funds error when the withdraw guard accepts
\* the principal and with the authorization error when it rejects it; it
\* appends no event and leaves codes, storage and balances unchanged.
C5_OverdrawFails ==
    [][(lastOp'.op = "withdraw" /\ Overdraws(lastOp'))
        => /\ lastOp'.result =
                IF WithdrawGuardRejects(lastOp') THEN BadOrigin
                ELSE "InsufficientBalance"
           /\ UNCHANGED <<AccountCodes, AccountStorages, balances, events>>]_vars

\* C5 witness: an authorized withdraw of more than the remaining balance,
\* refused for lack of funds
C5_Witness ==
    /\ lastOp.op = "withdraw"
    /\ ~WithdrawGuardRejects(lastOp)
    /\ lastOp.result = "InsufficientBalance"
    /\ free_balance(into_account_id(config.mapping, lastOp.address)) > 0
    /\ lastOp.value > free_balance(into_account_id(config.mapping, lastOp.address))

\* C6: a successful withdraw moves exactly the amount from the identity
\* mapped from the address to the destination the withdraw guard yields,
\* changes no other balance, appends no event and leaves codes and storage
\* unchanged; a withdraw the guard rejects moves nothing.
C6_WithdrawMovesAmount ==
    [][lastOp'.op = "withdraw"
        => \A r \in {lastOp'} :
             LET g == ensure_address_origin(config.withdrawOrigin, r.address, r.origin)
                 from == into_account_id(config.mapping, r.address)
             IN  /\ (~g.ok) => (r.result = BadOrigin /\ balances' = balances)
                 /\ (r.result = "Ok") =>
                      /\ g.ok
                      /\ g.val \in AccountId
                      /\ MapGet(balances', from, 0) = MapGet(balances, from, 0) - r.value
                      /\ MapGet(balances', g.val, 0) = MapGet(balances, g.val, 0) + r.value
                      /\ \A id \in (DOMAIN balances \cup DOMAIN balances') \ {from, g.val} :
                           MapGet(balances', id, 0) = MapGet(balances, id, 0)
                 /\ UNCHANGED <<AccountCodes, AccountStorages, events>>]_vars

\* C6 witness: a successful withdraw of a part of the balance
C6_Witness ==
    /\ lastOp.op = "withdraw"
    /\ lastOp.result = "Ok"
    /\ lastOp.value > 0
    /\ free_balance(into_account_id(config.mapping, lastOp.address)) > 0
    /\ free_balance(lastOp.origin.raw.who) > 0

\* C7: immediately after remove(address) the code of the address reads as
\* the empty byte sequence and its storage reads as zero at every key.
C7_RemovedReadsEmpty ==
    lastOp.op = "remove"
        => /\ account_codes(lastOp.address) = EmptyCode
           /\ \A index \in H256 : account_storages(lastOp.address, index) = ZeroH256

\* C7 witness: the removal of an address that a call had written storage to
C7_Witness ==
    /\ lastOp.op = "remove"
    /\ \E i \in DOMAIN events : events[i] = LogEvent(lastOp.address)
    /\ account_codes(lastOp.address) = EmptyCode

\* C8 as stated: is_empty(address) is true immediately after remove(address),
\* whatever balance or nonce the mapped identity holds.
C8_Original ==
    lastOp.op = "remove" => is_account_empty(lastOp.address)

\* C8 amended: immediately after remove(address), is_empty(address) is true
\* exactly when the mapped identity has zero nonce and zero free balance;
\* immediately after remove_if_empty(address) on an address that was already
\* empty, is_empty(address) is true.
C8_EmptyAfterRemove ==
    [][\A a \in Addrs :
        LET id == into_account_id(config.mapping, a)
        IN  /\ (lastOp'.op = "remove" /\ lastOp'.address = a)
                => (is_account_empty(a)'
                      <=> (MapGet(nonces', id, 0) = 0 /\ MapGet(balances', id, 0) = 0))
            /\ (lastOp'.op = "remove_if_empty" /\ lastOp'.address = a
                  /\ is_account_empty(a))
                => is_account_empty(a)']_vars

\* C8 witness: the removal of an address whose identity has a nonce but no
\* balance, which is_empty reports as not empty
C8_Witness ==
    /\ lastOp.op = "remove"
    /\ account_nonce(into_account_id(config.mapping, lastOp.address)) > 0
    /\ free_balance(into_account_id(config.mapping, lastOp.address)) = 0
    /\ ~is_account_empty(lastOp.address)

\* The principal is a signed origin whose signer's first AddrLen bytes are
\* the bytes of the address
SignedWithPrefix(origin, address) ==
    /\ origin.pallet = "system"
    /\ origin.raw.kind = "Signed"
    /\ \A i \in 1..AddrLen : origin.raw.who[i] = address[i]

\* C9: the truncated guard succeeds, with the signer's identity, iff the
\* principal is a signed origin whose signer's leading bytes equal the
\* address; otherwise ensure fails with the authorization error.
C9_TruncatedGuard ==
    (guardCall.guard = "Truncated" /\ guardCall.phase = "ensured")
        => IF SignedWithPrefix(guardCall.origin, guardCall.address)
           THEN /\ guardCall.try = Ok(guardCall.origin.raw.who)
                /\ guardCall.ensure = Ok(guardCall.origin.raw.who)
           ELSE /\ ~guardCall.try.ok
                /\ guardCall.ensure = Err(BadOrigin)

\* C9 witness: a signer that differs from the address in its last byte only
\* is rejected
C9_Witness ==
    /\ guardCall.guard = "Truncated"
    /\ guardCall.phase = "ensured"
    /\ guardCall.origin.pallet = "system"
    /\ guardCall.origin.raw.kind = "Signed"
    /\ \A i \in 1..(AddrLen - 1) : guardCall.origin.raw.who[i] = guardCall.address[i]
    /\ guardCall.origin.raw.who[AddrLen] # guardCall.address[AddrLen]
    /\ guardCall.ensure = Err(BadOrigin)

\* C10: the root guard succeeds iff the principal is the root origin, the
\* never guard rejects every principal, and a rejecting try of any of the
\* three guards returns the principal it was given.
C10_RootNeverAndRejection ==
    (guardCall.phase # "input" /\ guardCall.phase # "none")
        => /\ (guardCall.guard = "Root")
                => (guardCall.try.ok <=> guardCall.origin = FromRaw(RawRoot))
           /\ (guardCall.guard = "Root" /\ guardCall.try.ok)
                => guardCall.try.val = Unit
           /\ (guardCall.guard = "Never") => ~guardCall.try.ok
           /\ (~guardCall.try.ok) => guardCall.try.val = guardCall.origin

\* C10 witness: the root guard rejects a signed principal and hands it back
C10_Witness ==
    /\ guardCall.guard = "Root"
    /\ guardCall.phase = "tried"
    /\ guardCall.origin.raw.kind = "Signed"
    /\ guardCall.try = Err(guardCall.origin)

(* ------------------------- the genesis load ---------------------------- *)
\* The genesis configs: any of the addresses, each with any genesis account
GenesisLoads ==
    UNION {[S -> GenesisAccounts] : S \in SUBSET Addrs}

InitGenesis ==
    /\ config \in Configs
    /\ AccountCodes = EmptyMap
    /\ AccountStorages = EmptyMap
    /\ balances = EmptyMap
    /\ nonces = EmptyMap
    /\ events = << >>
    /\ lastOp = NoOp
    /\ steps = 0
    /\ guardCall = NoGuardCall
    /\ mapCall = NoMapCall
    /\ inv = NoInv
    /\ \E accounts \in GenesisLoads :
         genesis = [accounts |-> accounts, pending |-> DOMAIN accounts,
                    mode |-> "start"]

\* The state a genesis step leaves
GenesisCommit(w) ==
    /\ AccountCodes' = w.codes
    /\ AccountStorages' = w.storages
    /\ balances' = w.balances
    /\ nonces' = w.nonces
    /\ events' = w.events
    /\ UNCHANGED <<config, lastOp, steps, guardCall, mapCall, inv>>

\* The whole build closure: every account, in the order of the BTreeMap
GenesisBuild ==
    /\ genesis.mode = "start"
    /\ GenesisCommit(genesis_build(World, config.mapping, genesis.accounts))
    /\ genesis' = [genesis EXCEPT !.pending = {}, !.mode = "built"]

\* One pass of the loop, for an account taken in any order
GenesisApply ==
    /\ genesis.mode \in {"start", "any order"}
    /\ \E address \in genesis.pending :
         /\ GenesisCommit(genesis_account(World, config.mapping, address,
                                          genesis.accounts[address]))
         /\ genesis' = [genesis EXCEPT !.pending = @ \ {address},
                                       !.mode = "any order"]

NextGenesis == GenesisBuild \/ GenesisApply

SpecGenesis == InitGenesis /\ [][NextGenesis]_vars

\* C11: after the genesis load the free balance of the identity mapped from
\* each record's address is the record's balance, the code of the address
\* reads as the record's code and its storage reads as the record's value at
\* each key of the record; a record with a balance and empty code leaves
\* the address not empty.
C11_GenesisLoaded ==
    genesis.mode = "built"
        => \A address \in DOMAIN genesis.accounts :
             LET account == genesis.accounts[address]
                 id == into_account_id(config.mapping, address)
             IN  /\ MapGet(balances, id, 0) = account.balance
                 /\ account_codes(address) = account.code
                 /\ \A index \in DOMAIN account.storage :
                      account_storages(address, index) = account.storage[index]
                 /\ (account.balance # 0 /\ account.code = EmptyCode)
                      => /\ ~is_account_empty(address)
                         /\ free_balance(id) = account.balance

\* C11 witness: a load of two accounts, one with a balance and empty code,
\* the other with code and storage
C11_Witness ==
    /\ genesis.mode = "built"
    /\ Cardinality(DOMAIN genesis.accounts) = 2
    /\ \E a \in DOMAIN genesis.accounts :
         /\ genesis.accounts[a].balance = MaxBal
         /\ genesis.accounts[a].code = EmptyCode
         /\ ~is_account_empty(a)
    /\ \E a \in DOMAIN genesis.accounts :
         /\ genesis.accounts[a].code # EmptyCode
         /\ account_storages(a, RunKey) = RunValue

\* C12: the state the genesis load reaches is the same for every order in
\* which the records of distinct addresses are applied.
C12_GenesisOrder ==
    (genesis.mode \in {"built", "any order"} /\ genesis.pending = {})
        => World = genesis_build(EmptyWorld, config.mapping, genesis.accounts)

\* C12 witness: two accounts with balances, code and storage, loaded one by
\* one
C12_Witness ==
    /\ genesis.mode = "any order"
    /\ genesis.pending = {}
    /\ Cardinality(DOMAIN genesis.accounts) = 2
    /\ \A a \in DOMAIN genesis.accounts :
         /\ genesis.accounts[a].balance = MaxBal
         /\ genesis.accounts[a].code # EmptyCode
    /\ Cardinality(DOMAIN AccountStorages) = 2
    /\ Cardinality(DOMAIN balances) = 2

\* The address a create by `source` is due in the current state
expected_create_address(source) ==
    create_address(source, account_nonce(into_account_id(config.mapping, source)))

\* C13: the event of a create carries the address fixed by the source and
\* its nonce, whether the Runner reports success or failure: every other
\* result the Runner may give from the same state, ending Succeed or not,
\* puts the same address in Created or CreatedFailed.
C13_FailedCreateAddress ==
    [][(lastOp'.op = "create" /\ lastOp'.exit \in ExitReason)
        => /\ events'[Len(events')] =
                create_event(lastOp'.exit, expected_create_address(lastOp'.address))
           /\ \A other \in Runner_create(lastOp'.address, InitCode) :
                other.res.ok
                  => LET out == create(lastOp'.origin, lastOp'.address, other)
                         e == out.world.events[Len(out.world.events)]
                     IN  /\ e.name = IF other.res.val.exit_reason.kind = "Succeed"
                                     THEN "Created" ELSE "CreatedFailed"
                         /\ e.address = events'[Len(events')].address]_vars

\* C13 witness: a second create by a source, which failed, after its first
\* create succeeded
C13_Witness ==
    /\ lastOp.op = "create"
    /\ lastOp.exit.kind = "Error"
    /\ Len(events) = 2
    /\ events[1].name = "Created"
    /\ events[2] = CreatedFailed(create_address(lastOp.address, 1))
    /\ events[1].address # events[2].address
    /\ account_nonce(into_account_id(config.mapping, lastOp.address)) = 2

\* C14 as stated: whenever a call, create or create2 returns an error, the
\* case of a Runner that returns an error after a write of code or storage
\* included, the code map, the storage map and the event log are what they
\* were before the invocation.
C14_ErrorLeavesNoWrite ==
    [][(lastOp'.op \in DispatchOps /\ lastOp'.result # "Ok")
        => UNCHANGED <<AccountCodes, AccountStorages, events>>]_vars

(* ---------------- the address mappings as pure functions --------------- *)
\* A mapping is applied to an address, to the same address again, and to a
\* second address
MapInputs ==
    {[mapping |-> m, a |-> a, b |-> b, phase |-> "input",
      first |-> NoId, again |-> NoId, second |-> NoId] :
        m \in Mappings, a \in Address, b \in Address}

InitMapping ==
    /\ config = [mapping |-> "Hashed", callOrigin |-> "Truncated",
                 withdrawOrigin |-> "Truncated"]
    /\ AccountCodes = EmptyMap
    /\ AccountStorages = EmptyMap
    /\ balances = EmptyMap
    /\ nonces = EmptyMap
    /\ events = << >>
    /\ lastOp = NoOp
    /\ steps = 0
    /\ guardCall = NoGuardCall
    /\ genesis = NoGenesis
    /\ mapCall \in MapInputs
    /\ inv = NoInv

MapFirst ==
    /\ mapCall.phase = "input"
    /\ mapCall' = [mapCall EXCEPT
                     !.phase = "first",
                     !.first = into_account_id(mapCall.mapping, mapCall.a)]
    /\ UNCHANGED <<config, AccountCodes, AccountStorages, balances, nonces,
                   events, lastOp, steps, guardCall, genesis, inv>>

MapAgain ==
    /\ mapCall.phase = "first"
    /\ mapCall' = [mapCall EXCEPT
                     !.phase = "again",
                     !.again = into_account_id(mapCall.mapping, mapCall.a)]
    /\ UNCHANGED <<config, AccountCodes, AccountStorages, balances, nonces,
                   events, lastOp, steps, guardCall, genesis, inv>>

MapSecond ==
    /\ mapCall.phase = "again"
    /\ mapCall' = [mapCall EXCEPT
                     !.phase = "done",
                     !.second = into_account_id(mapCall.mapping, mapCall.b)]
    /\ UNCHANGED <<config, AccountCodes, AccountStorages, balances, nonces,
                   events, lastOp, steps, guardCall, genesis, inv>>

NextMapping == MapFirst \/ MapAgain \/ MapSecond

SpecMapping == InitMapping /\ [][NextMapping]_vars

\* The native identities of a mapping: H160 for the identity mapping,
\* AccountId32 for the hashed one
MappedIds(mapping) == IF mapping = "Identity" THEN Address ELSE AccountId32

\* C15: each mapping gives every address a native identity, the same one
\* when the address is mapped again, and gives two distinct addresses
\* distinct identities; for the hashed mapping under an injective hash of
\* the tagged buffer.
C15_MappingInjective ==
    mapCall.phase = "done"
        => /\ mapCall.first \in MappedIds(mapCall.mapping)
           /\ mapCall.second \in MappedIds(mapCall.mapping)
           /\ mapCall.again = mapCall.first
           /\ (mapCall.a # mapCall.b) => (mapCall.first # mapCall.second)
           /\ (mapCall.a = mapCall.b) => (mapCall.first = mapCall.second)

\* C15 witness: the hashed mapping applied to two addresses that differ in
\* their last byte only
C15_Witness ==
    /\ mapCall.phase = "done"
    /\ mapCall.mapping = "Hashed"
    /\ mapCall.a # mapCall.b
    /\ SubSeq(mapCall.a, 1, AddrLen - 1) = SubSeq(mapCall.b, 1, AddrLen - 1)
    /\ mapCall.first # mapCall.second
    /\ mapCall.first # mapCall.a

(* ------------- call, create and create2 statement by statement --------- *)
InitSteps ==
    /\ config \in Configs
    /\ AccountCodes = EmptyMap
    /\ AccountStorages = EmptyMap
    /\ balances = EmptyMap
    /\ nonces = EmptyMap
    /\ events = << >>
    /\ lastOp = NoOp
    /\ steps = 0
    /\ guardCall = NoGuardCall
    /\ genesis = NoGenesis
    /\ mapCall = NoMapCall
    /\ inv = NoInv

\* A dispatchable is entered with its arguments
Begin ==
    /\ inv.pc = "idle"
    /\ steps < MaxSteps
    /\ \E op \in DispatchOps, origin \in Origins, source \in Addrs,
          target \in Addrs :
         inv' = [NoInv EXCEPT
                   !.op = op, !.origin = origin, !.source = source,
                   !.target = IF op = "call" THEN target ELSE NoAddress,
                   !.pc = "guard"]
    /\ UNCHANGED <<config, AccountCodes, AccountStorages, balances, nonces,
                   events, lastOp, steps, guardCall, genesis, mapCall>>

\* T::CallOrigin::ensure_address_origin(&source, origin)?
CheckOrigin ==
    /\ inv.pc = "guard"
    /\ LET g == call_origin(inv.source, inv.origin)
       IN  inv' = [inv EXCEPT
                     !.guards = @ + 1,
                     !.guardOk = g.ok,
                     !.result = IF g.ok THEN "Ok" ELSE g.val,
                     !.pc = after_origin_check(g)]
    /\ UNCHANGED <<config, AccountCodes, AccountStorages, balances, nonces,
                   events, lastOp, steps, guardCall, genesis, mapCall>>

\* What the Runner of the dispatchable in progress may do
RunnerOf(i) ==
    IF i.op = "call" THEN Runner_call(i.source, i.target)
    ELSE IF i.op = "create" THEN Runner_create(i.source, InitCode)
    ELSE UNION {Runner_create2(i.source, InitCode, salt) : salt \in Salts}

\* T::Runner::call(..)?, T::Runner::create(..)?, T::Runner::create2(..)?
InvokeRunner ==
    /\ inv.pc = "runner"
    /\ \E run \in RunnerOf(inv) :
         /\ AccountCodes' = run.world.codes
         /\ AccountStorages' = run.world.storages
         /\ balances' = run.world.balances
         /\ nonces' = run.world.nonces
         /\ events' = run.world.events
         /\ inv' = [inv EXCEPT
                      !.runs = @ + 1,
                      !.returned = TRUE,
                      !.result = IF run.res.ok THEN "Ok" ELSE run.res.val,
                      !.exit = IF run.res.ok THEN run.res.val.exit_reason ELSE NoExit,
                      !.created = IF run.res.ok THEN run.res.val.value ELSE NoAddress,
                      !.pc = after_runner(run.res)]
    /\ UNCHANGED <<config, lastOp, steps, guardCall, genesis, mapCall>>

\* The match on the Runner's result and its Module::deposit_event
DepositEvent ==
    /\ inv.pc = "event"
    /\ events' = deposit_event(events,
                    IF inv.op = "call"
                    THEN call_event(inv.exit, inv.target)
                    ELSE create_event(inv.exit, inv.created))
    /\ inv' = [inv EXCEPT !.deposits = @ + 1, !.pc = "done"]
    /\ UNCHANGED <<config, AccountCodes, AccountStorages, balances, nonces,
                   lastOp, steps, guardCall, genesis, mapCall>>

\* The dispatchable returns
Return ==
    /\ inv.pc = "done"
    /\ inv' = [inv EXCEPT !.pc = "idle"]
    /\ steps' = steps + 1
    /\ UNCHANGED <<config, AccountCodes, AccountStorages, balances, nonces,
                   events, lastOp, guardCall, genesis, mapCall>>

NextSteps == Begin \/ CheckOrigin \/ InvokeRunner \/ DepositEvent \/ Return

SpecSteps == InitSteps /\ [][NextSteps]_vars

\* C16: within one call, create or create2 the Runner is invoked at most
\* once and only after the guard check of that invocation has succeeded, and
\* the event of the invocation is deposited only after the Runner has
\* returned; no Runner invocation precedes or lacks a successful guard
\* check.
C16_GuardThenRunnerThenEvent ==
    /\ inv.runs <= 1
    /\ inv.deposits <= 1
    /\ (inv.runs = 1 \/ inv.pc = "runner")
         => /\ inv.guards = 1
            /\ inv.guardOk
            /\ ensure_address_origin(config.callOrigin, inv.source, inv.origin).ok
    /\ (inv.deposits = 1 \/ inv.pc = "event")
         => /\ inv.runs = 1
            /\ inv.returned
            /\ inv.exit \in ExitReason
    /\ (inv.guards = 1 /\ ~inv.guardOk)
         => /\ inv.runs = 0
            /\ inv.deposits = 0
            /\ inv.result = BadOrigin

\* C16 witness: a create2 that passed the guard, ran once and deposited its
\* event, after an earlier invocation that deposited none
C16_Witness ==
    /\ inv.op = "create2"
    /\ inv.pc = "done"
    /\ inv.guards = 1
    /\ inv.runs = 1
    /\ inv.deposits = 1
    /\ steps = 1
    /\ Len(events) = 1
    /\ events[1].name \in {"Created", "CreatedFailed"}

\* The results the Runner may give to the operation r, from the state the
\* operation starts in
RunnerOfOp(r) ==
    RunnerOf([op |-> r.op, source |-> r.address, target |-> r.target])

\* C17: after a call, create or create2 the code map and the storage map
\* are what the Runner committed, for every exit status and for a Runner
\* error alike: the dispatchable writes to neither and removes from
\* neither, and an invocation stopped by the guard leaves both as they
\* were.
C17_StoreAsRunnerCommitted ==
    [][lastOp'.op \in DispatchOps
        => IF CallGuardRejects(lastOp')
           THEN UNCHANGED <<AccountCodes, AccountStorages>>
           ELSE \E run \in RunnerOfOp(lastOp') :
                  /\ run.res.ok <=> (lastOp'.result = "Ok")
                  /\ run.res.ok => (run.res.val.exit_reason = lastOp'.exit)
                  /\ AccountCodes' = run.world.codes
                  /\ AccountStorages' = run.world.storages]_vars

\* C17 witness: a call that returned and wrote a slot of its target, an
\* account that is empty and keeps the slot
C17_Witness ==
    /\ lastOp.op = "call"
    /\ lastOp.exit = [kind |-> "Succeed", reason |-> "Returned"]
    /\ is_account_empty(lastOp.target)
    /\ <<lastOp.target, RunKey>> \in DOMAIN AccountStorages
    /\ account_storages(lastOp.target, RunKey) = RunValue

\* The storage keys of an address in a storage map
SlotsOf(storages, address) == {k \in DOMAIN storages : k[1] = address}

\* C18: remove_account_if_empty clears the code entry and every storage slot
\* of an address that is empty, and leaves the code map and the storage map
\* unchanged for an address that is not (nonzero nonce, balance or code
\* length); it never clears the code and leaves slots, or the reverse.
C18_RemoveIfEmpty ==
    [][lastOp'.op = "remove_if_empty"
        => \A a \in Addrs :
             (lastOp'.address = a)
               => /\ is_account_empty(a)
                       => /\ a \notin DOMAIN AccountCodes'
                          /\ SlotsOf(AccountStorages', a) = {}
                  /\ ~is_account_empty(a)
                       => UNCHANGED <<AccountCodes, AccountStorages>>
                  /\ (a \in DOMAIN AccountCodes /\ a \notin DOMAIN AccountCodes')
                       => SlotsOf(AccountStorages', a) = {}
                  /\ (SlotsOf(AccountStorages, a) # {}
                        /\ SlotsOf(AccountStorages', a) = {})
                       => a \notin DOMAIN AccountCodes']_vars

\* C18 witness: remove_account_if_empty of an empty address whose slot a
\* call had written
C18_Witness ==
    /\ lastOp.op = "remove_if_empty"
    /\ steps = 2
    /\ \E i \in 1..Len(events) : events[i] = LogEvent(lastOp.address)
    /\ is_account_empty(lastOp.address)
    /\ lastOp.address \notin DOMAIN AccountCodes
    /\ SlotsOf(AccountStorages, lastOp.address) = {}

\* C19: an address is empty exactly when the nonce of its mapped identity
\* is zero, its free balance is zero and its stored code has length zero;
\* an absent code entry and an entry holding the empty code count alike,
\* and the storage slots of the address do not count.
C19_EmptyIffZeroNonceBalanceCode ==
    \A a \in Addrs :
        LET id == into_account_id(config.mapping, a)
        IN  is_account_empty(a)
              <=> /\ account_nonce(id) = 0
                  /\ free_balance(id) = 0
                  /\ (a \in DOMAIN AccountCodes => AccountCodes[a] = EmptyCode)

\* C19 witness: two empty addresses, one with an entry of empty code and a
\* storage slot, one with no entry
C19_Witness ==
    \E a \in Addrs, b \in Addrs :
        /\ a \in DOMAIN AccountCodes
        /\ AccountCodes[a] = EmptyCode
        /\ SlotsOf(AccountStorages, a) # {}
        /\ is_account_empty(a)
        /\ b \notin DOMAIN AccountCodes
        /\ SlotsOf(AccountStorages, b) = {}
        /\ is_account_empty(b)

\* C20: remove_account and remove_account_if_empty change nothing outside
\* the given address: the code and the storage slots of every other address,
\* every balance and nonce, those of the identity mapped from the removed
\* address included, and the event log are unchanged, and nothing is added.
C20_RemoveFrame ==
    [][lastOp'.op \in {"remove", "remove_if_empty"}
        => /\ \A k \in DOMAIN AccountCodes :
                k # lastOp'.address
                  => (k \in DOMAIN AccountCodes' /\ AccountCodes'[k] = AccountCodes[k])
           /\ \A k \in DOMAIN AccountStorages :
                k[1] # lastOp'.address
                  => (k \in DOMAIN AccountStorages'
                        /\ AccountStorages'[k] = AccountStorages[k])
           /\ DOMAIN AccountCodes' \subseteq DOMAIN AccountCodes
           /\ DOMAIN AccountStorages' \subseteq DOMAIN AccountStorages
           /\ UNCHANGED <<balances, nonces, events>>]_vars

\* C20 witness: remove_account of an address that genesis gave code, storage
\* and a balance and that has created a contract: the contract's code, the
\* balance, the nonce and the event are still there
C20_Witness ==
    /\ lastOp.op = "remove"
    /\ lastOp.address \notin DOMAIN AccountCodes
    /\ free_balance(into_account_id(config.mapping, lastOp.address)) = MaxBal
    /\ account_nonce(into_account_id(config.mapping, lastOp.address)) = 1
    /\ \E b \in DOMAIN AccountCodes : b # lastOp.address /\ AccountCodes[b] = InitCode
    /\ events = << Created(create_address(lastOp.address, 0)) >>

====
